---- MODULE Spec2Model ----
\* Model of stock_price_lr.py (src/stockprice.ipynb): one run of main(), in
\* train mode or in predict mode, over a table returned by the data provider.
EXTENDS Integers, Sequences, FiniteSets, TLC

\* ---------------------------------------------------------------------
\* Bounds of the model
\* ---------------------------------------------------------------------
\* longest provider table whose closes are drawn freely (missing values included)
MaxRows == 4
\* longest provider table at all; the tables longer than MaxRows carry closes that
\* cycle through 1..MaxClose, with or without one missing value
MaxLen == 28
\* closes are drawn from 1..MaxClose
MaxClose == 2

\* a missing value (NaN) in a numeric column
NaN == -1

Closes == 1..MaxClose

\* --test_size as typed on the command line: the decimal num/den; the default is 0.2
DefaultTestSize == <<20, 100>>
TestSizes == { <<20, 100>>, <<28, 100>>, <<50, 100>>, <<99, 100>> }

\* files of the run: models/<ticker>_lr.pkl and reports/<ticker>_lr_plot.png
ModelFile == "models/t_lr.pkl"
PlotFile  == "reports/t_lr_plot.png"

\* --model_path: absent (None), empty, or the model file
NoPath == "<None>"
ModelPaths == { NoPath, "", ModelFile }

\* ---------------------------------------------------------------------
\* Python floats (IEEE-754 binary64) as far as the split needs them:
\* a float is [m |-> 53 bits, most significant first, e |-> k], value m * 2^-k
\* ---------------------------------------------------------------------
MantBits == 53
LimbBits == 14
Limb == 2 ^ LimbBits

\* 2^k modulo den
RECURSIVE PowMod2(_, _)
PowMod2(k, den) ==
    IF k = 0 THEN 1 % den
    ELSE LET h == PowMod2(k \div 2, den)
             s == (h * h) % den
         IN  IF k % 2 = 0 THEN s ELSE (2 * s) % den

\* remainder of num * 2^j modulo den, and bit j (j >= 1) of the binary expansion of num/den
RemAt(num, den, j) == (num * PowMod2(j, den)) % den
FracBit(num, den, j) == (2 * RemAt(num, den, j - 1)) \div den

LeadZeros(num, den) ==
    CHOOSE z \in 0..31 : /\ FracBit(num, den, z + 1) = 1
                         /\ \A j \in 1..z : FracBit(num, den, j) = 0

AnyOne(bits) == \E i \in 1..Len(bits) : bits[i] = 1

Increment(bits) ==
    IF \A i \in 1..Len(bits) : bits[i] = 1
    THEN <<1>> \o [i \in 1..Len(bits) |-> 0]
    ELSE LET p == CHOOSE i \in 1..Len(bits) :
                      bits[i] = 0 /\ \A j \in (i + 1)..Len(bits) : bits[j] = 1
         IN  [i \in 1..Len(bits) |-> IF i < p THEN bits[i] ELSE IF i = p THEN 1 ELSE 0]

\* round a bit string with a leading 1 to MantBits bits, ties to even;
\* sh is the number of low bits the rounding removed
RoundBits(bits, sticky) ==
    LET L    == Len(bits)
        keep == SubSeq(bits, 1, MantBits)
        drop == SubSeq(bits, MantBits + 1, L)
        g    == IF drop = <<>> THEN 0 ELSE drop[1]
        s    == sticky \/ (Len(drop) > 1 /\ AnyOne(Tail(drop)))
        up   == g = 1 /\ (s \/ keep[MantBits] = 1)
        inc  == IF up THEN Increment(keep) ELSE keep
    IN  IF Len(inc) > MantBits
        THEN [m |-> SubSeq(inc, 1, MantBits), sh |-> (L - MantBits) + 1]
        ELSE [m |-> inc, sh |-> L - MantBits]

\* float("num/den") for 0 < num < den: the binary64 nearest to the decimal
ParseFloat(num, den) ==
    LET z    == LeadZeros(num, den)
        bits == [j \in 1..(MantBits + 1) |-> FracBit(num, den, z + j)]
        r    == RoundBits(bits, RemAt(num, den, z + MantBits + 1) # 0)
    IN  [m |-> r.m, e |-> z + MantBits + 1 - r.sh]

\* value of bits lo..hi of a bit string; positions before the first read as 0
LimbOf(bits, lo, hi) ==
    LET v[i \in (lo - 1)..hi] ==
            IF i < lo THEN 0 ELSE 2 * v[i - 1] + (IF i >= 1 THEN bits[i] ELSE 0)
    IN  v[hi]

BitLen(x) == CHOOSE k \in 0..31 : (k = 0 \/ x >= 2 ^ (k - 1)) /\ x < 2 ^ k

IntBits(x, k) == [i \in 1..k |-> (x \div (2 ^ (k - i))) % 2]

\* the exact product of a mantissa and a natural n >= 1, as a bit string
MulBits(bits, n) ==
    LET l0 == LimbOf(bits, MantBits - LimbBits + 1, MantBits)
        l1 == LimbOf(bits, MantBits - 2 * LimbBits + 1, MantBits - LimbBits)
        l2 == LimbOf(bits, MantBits - 3 * LimbBits + 1, MantBits - 2 * LimbBits)
        l3 == LimbOf(bits, MantBits - 4 * LimbBits + 1, MantBits - 3 * LimbBits)
        p0 == l0 * n
        p1 == l1 * n + p0 \div Limb
        p2 == l2 * n + p1 \div Limb
        p3 == l3 * n + p2 \div Limb
    IN  IntBits(p3, BitLen(p3)) \o IntBits(p2 % Limb, LimbBits)
          \o IntBits(p1 % Limb, LimbBits) \o IntBits(p0 % Limb, LimbBits)

\* test_size * n_samples in float arithmetic, n >= 1
FloatMul(f, n) ==
    LET r == RoundBits(MulBits(f.m, n), FALSE)
    IN  [m |-> r.m, e |-> f.e - r.sh]

\* math.ceil of a positive float
Ceil(x) ==
    IF x.e >= MantBits THEN 1
    ELSE LimbOf(x.m, 1, MantBits - x.e)
           + (IF AnyOne(SubSeq(x.m, MantBits - x.e + 1, MantBits)) THEN 1 ELSE 0)

\* ---------------------------------------------------------------------
\* Data utilities
\* ---------------------------------------------------------------------
\* tail(k) that starts one row late
TailRows_late(s, k) == IF Len(s) <= k THEN s ELSE SubSeq(s, Len(s) - k + 2, Len(s))

\* DataFrame.tail(k)
TailRows(s, k) == IF Len(s) <= k THEN s ELSE SubSeq(s, Len(s) - k + 1, Len(s))

\* yf.download result -> reset_index (Date becomes a column, labels 0..n-1) -> dropna
download_data(tbl) ==
    LET reset == [i \in 1..Len(tbl) |->
                    [idx |-> i - 1, Date |-> tbl[i].Date, Close |-> tbl[i].Close]]
    IN  SelectSeq(reset, LAMBDA r : r.Close # NaN)

\* a shift that ignores the lag and always takes the previous row
shift_one(df, i, lag) == IF i - 1 >= 1 THEN df[i - 1].Close ELSE NaN

\* df["Close"].shift(lag) at position i (1-based)
shift(df, i, lag) == IF i - lag >= 1 THEN df[i - lag].Close ELSE NaN

\* make_features that takes Day from the row label instead of np.arange(len(df))
make_features_label_day(df) ==
    LET full == [i \in 1..Len(df) |->
                   [idx |-> df[i].idx, Date |-> df[i].Date, Close |-> df[i].Close,
                    Day |-> df[i].idx,
                    Close_lag1 |-> shift(df, i, 1),
                    Close_lag2 |-> shift(df, i, 2),
                    Close_lag3 |-> shift(df, i, 3)]]
    IN  SelectSeq(full, LAMBDA r : /\ r.Close # NaN
                                   /\ r.Close_lag1 # NaN
                                   /\ r.Close_lag2 # NaN
                                   /\ r.Close_lag3 # NaN)

make_features(df) ==
    LET full == [i \in 1..Len(df) |->
                   [idx |-> df[i].idx, Date |-> df[i].Date, Close |-> df[i].Close,
                    Day |-> i - 1,
                    Close_lag1 |-> shift(df, i, 1),
                    Close_lag2 |-> shift(df, i, 2),
                    Close_lag3 |-> shift(df, i, 3)]]
    IN  SelectSeq(full, LAMBDA r : /\ r.Close # NaN
                                   /\ r.Close_lag1 # NaN
                                   /\ r.Close_lag2 # NaN
                                   /\ r.Close_lag3 # NaN)

\* df[["Day", "Close_lag1", "Close_lag2", "Close_lag3"]] and df["Close"], rows keep their labels
FeatureCols(df) ==
    [i \in 1..Len(df) |-> [idx |-> df[i].idx, Day |-> df[i].Day,
                           Close_lag1 |-> df[i].Close_lag1,
                           Close_lag2 |-> df[i].Close_lag2,
                           Close_lag3 |-> df[i].Close_lag3]]
CloseCol(df) == [i \in 1..Len(df) |-> [idx |-> df[i].idx, Close |-> df[i].Close]]

Labels(rows) == [i \in 1..Len(rows) |-> rows[i].idx]

\* ---------------------------------------------------------------------
\* Train / predict helpers
\* ---------------------------------------------------------------------
\* ap.add_argument("--test_size", type=float): the float of each decimal of TestSizes
ParsedTestSizes == [t \in TestSizes |-> ParseFloat(t[1], t[2])]
float(text) == ParsedTestSizes[text]

\* train_test_split(..., test_size=f, shuffle=False): n_test = ceil(test_size * n_samples)
\* in float arithmetic, n_train = n_samples - n_test
n_test_of(test_size, n_samples) ==
    IF n_samples = 0 THEN 0 ELSE Ceil(FloatMul(float(test_size), n_samples))

n_train_of(n_samples, n_test) == n_samples - n_test

\* a split that never rejects, and one that also rejects a train set of one row
SplitFails_never(n_train, n_test) == n_train < 0
SplitFails_one(n_train, n_test) == n_train <= 1

\* the split raises ValueError when the resulting train set is empty
SplitFails(n_train, n_test) == n_train = 0

\* a split that trains on the last rows, and one whose test set stops a row early
TrainRows_suffix(rows, n_train, n_test) == SubSeq(rows, Len(rows) - n_train + 1, Len(rows))
TestRows_short(rows, n_train, n_test) == SubSeq(rows, n_train + 1, n_train + n_test - 1)

\* shuffle=False: train is the positions 0..n_train-1, test the next n_test positions
TrainRows(rows, n_train, n_test) == SubSeq(rows, 1, n_train)
TestRows(rows, n_train, n_test) == SubSeq(rows, n_train + 1, n_train + n_test)

\* pipe.fit(X_train, y_train): the fitted pipeline is a function of the rows it was fitted on
fit(X_rows, y_rows) == [fitX |-> X_rows, fitY |-> y_rows]

\* a fit on the whole table
FitInput_all(X_train, X_test) == X_train \o X_test

\* the rows train_model hands to pipe.fit
FitInput(X_train, X_test) == X_train

\* pipe.predict(X): one value per row of X, each a function of the pipeline and of that row
predict(p, X) == [i \in 1..Len(X) |-> [x |-> X[i], fitted_on |-> Labels(p.fitX)]]

\* mean_absolute_error(y_test, pred) and r2_score(y_test, pred): functions of their two arguments
metrics(y_true, y_pred) == [y_true |-> y_true, y_pred |-> y_pred]

train_model(df, test_size) ==
    LET X       == FeatureCols(df)
        y       == CloseCol(df)
        n_test  == n_test_of(test_size, Len(X))
        n_train == n_train_of(Len(X), n_test)
    IN  IF SplitFails(n_train, n_test)
        THEN [ok |-> FALSE]
        ELSE LET X_train == TrainRows(X, n_train, n_test)
                 X_test  == TestRows(X, n_train, n_test)
                 y_train == TrainRows(y, n_train, n_test)
                 y_test  == TestRows(y, n_train, n_test)
                 pipe_   == fit(FitInput(X_train, X_test), FitInput(y_train, y_test))
                 pred_   == predict(pipe_, X_test)
             IN  [ok |-> TRUE, pipe |-> pipe_,
                  train_idx |-> Labels(X_train), test_idx |-> Labels(X_test),
                  y_train |-> y_train, y_test |-> y_test, pred |-> pred_,
                  scores |-> metrics(y_test, pred_)]

\* df.loc[labels, "Date"]
DatesAt(df, labels) ==
    [i \in 1..Len(labels) |-> (CHOOSE r \in {df[k] : k \in 1..Len(df)} : r.idx = labels[i]).Date]

\* the three series plot_results draws, each against its dates
plot_results(df, train_idx, test_idx, y_train, y_test, pred) ==
    [train     |-> <<DatesAt(df, train_idx), y_train>>,
     actual    |-> <<DatesAt(df, test_idx), y_test>>,
     predicted |-> <<DatesAt(df, test_idx), pred>>]

\* ---------------------------------------------------------------------
\* The run of main()
\* ---------------------------------------------------------------------
VARIABLES
    args,      \* the parsed command line: predict, model_path, test_size
    provider,  \* the table the data provider returns for the ticker and period asked
    disk,      \* the model file and the plot file, each absent (<<>>) or <<content>>
    pc,        \* position of main(): start, p_fetch, p_features, p_predict,
               \*   t_features, t_train, t_save, t_plot, exit
    raw,       \* raw  (train mode)
    df,        \* df   (train mode)
    res,       \* what train_model returned, <<>> before
    pipe,      \* pipe, <<>> before it is loaded or fitted
    latest,    \* latest (predict mode)
    forecast,  \* pred of predict mode, <<>> before
    out,       \* what the run printed on standard output
    written,   \* the files the run wrote, in order
    trace,     \* the steps the run took, in order
    exitCode,  \* -1 while running, then the exit status of the process
    err        \* the step that raised, "" if none

vars == <<args, provider, disk, pc, raw, df, res, pipe, latest, forecast,
          out, written, trace, exitCode, err>>

\* a provider table: one row per trading day, dates ascending
Table(closes) == [i \in 1..Len(closes) |-> [Date |-> i, Close |-> closes[i]]]
Wave(n) == Table([i \in 1..n |-> 1 + (i % MaxClose)])
Holed(n) == Table([i \in 1..n |-> IF i = 2 THEN NaN ELSE 1 + (i % MaxClose)])

Tables ==
    { Table(c) : c \in UNION { [1..n -> Closes \cup {NaN}] : n \in 0..MaxRows } }
      \cup { Wave(n) : n \in (MaxRows + 1)..MaxLen }
      \cup { Holed(n) : n \in (MaxRows + 1)..MaxLen }

\* lengths of the tables of the earlier training runs that left a model file behind
PriorLens == {8, 13}
PriorPipe(n) == train_model(make_features(download_data(Wave(n))), DefaultTestSize).pipe
Disks ==
    { [model |-> <<>>, plot |-> <<>>] }
      \cup { [model |-> <<PriorPipe(n)>>, plot |-> <<>>] : n \in PriorLens }

\* the command lines: an option the mode does not read is left at its default
CommandLines ==
    [predict : {TRUE}, model_path : ModelPaths, test_size : {DefaultTestSize}]
      \cup [predict : {FALSE}, model_path : {NoPath}, test_size : TestSizes]

Init ==
    /\ args \in CommandLines
    /\ provider \in Tables
    /\ disk \in Disks
    /\ pc = "start"
    /\ raw = <<>> /\ df = <<>> /\ res = <<>> /\ pipe = <<>>
    /\ latest = <<>> /\ forecast = <<>>
    /\ out = <<>> /\ written = <<>> /\ trace = <<>>
    /\ exitCode = -1 /\ err = ""

\* a check that catches the empty path only
MissingModelPath_empty(model_path) == model_path = ""

\* `if not args.model_path`
MissingModelPath(model_path) == model_path \in {NoPath, ""}

\* the training workflow with the plot before the save
NextStep_plot_first(step) ==
    CASE step = "t_train" -> "t_plot"
      [] step = "t_plot"  -> "t_save"
      [] step = "t_save"  -> "exit"

\* the order of the statements of the training workflow after train_model
NextStep(step) ==
    CASE step = "t_train" -> "t_save"
      [] step = "t_save"  -> "t_plot"
      [] step = "t_plot"  -> "exit"

\* ap.error(...): usage message on standard error, exit status 2
UsageError ==
    /\ pc = "start" /\ args.predict /\ MissingModelPath(args.model_path)
    /\ pc' = "exit" /\ exitCode' = 2 /\ err' = "usage"
    /\ trace' = Append(trace, "usage")
    /\ UNCHANGED <<args, provider, disk, raw, df, res, pipe, latest, forecast, out, written>>

\* pipe = joblib.load(args.model_path)
LoadModel ==
    /\ pc = "start" /\ args.predict /\ ~MissingModelPath(args.model_path)
    /\ IF args.model_path = ModelFile /\ disk.model # <<>>
       THEN /\ pipe' = disk.model
            /\ pc' = "p_fetch"
            /\ trace' = Append(trace, "load")
            /\ UNCHANGED <<exitCode, err>>
       ELSE /\ pc' = "exit" /\ exitCode' = 1 /\ err' = "load"
            /\ UNCHANGED <<pipe, trace>>
    /\ UNCHANGED <<args, provider, disk, raw, df, res, latest, forecast, out, written>>

\* latest = download_data(args.ticker, period="10d").tail(4)
PredictFetch ==
    /\ pc = "p_fetch"
    /\ latest' = TailRows(download_data(provider), 4)
    /\ pc' = "p_features"
    /\ trace' = Append(trace, "fetch")
    /\ UNCHANGED <<args, provider, disk, raw, df, res, pipe, forecast, out, written, exitCode, err>>

\* latest = make_features(latest).tail(1)
PredictFeatures ==
    /\ pc = "p_features"
    /\ latest' = TailRows(make_features(latest), 1)
    /\ pc' = "p_predict"
    /\ trace' = Append(trace, "features")
    /\ UNCHANGED <<args, provider, disk, raw, df, res, pipe, forecast, out, written, exitCode, err>>

\* X_latest = latest[[...]]; pred = pipe.predict(X_latest)[0]; print; return
\* (predict raises on a table of no rows)
PredictOne ==
    /\ pc = "p_predict"
    /\ LET X_latest == FeatureCols(latest)
       IN  IF Len(X_latest) = 0
           THEN /\ pc' = "exit" /\ exitCode' = 1 /\ err' = "predict"
                /\ UNCHANGED <<forecast, out, trace>>
           ELSE /\ forecast' = <<predict(pipe[1], X_latest)[1]>>
                /\ out' = Append(out, "forecast")
                /\ trace' = Append(trace, "predict")
                /\ pc' = "exit" /\ exitCode' = 0
                /\ UNCHANGED err
    /\ UNCHANGED <<args, provider, disk, raw, df, res, pipe, latest, written>>

\* raw = download_data(args.ticker, args.period)
TrainFetch ==
    /\ pc = "start" /\ ~args.predict
    /\ raw' = download_data(provider)
    /\ pc' = "t_features"
    /\ trace' = Append(trace, "fetch")
    /\ UNCHANGED <<args, provider, disk, df, res, pipe, latest, forecast, out, written, exitCode, err>>

\* df = make_features(raw)
TrainFeatures ==
    /\ pc = "t_features"
    /\ df' = make_features(raw)
    /\ pc' = "t_train"
    /\ trace' = Append(trace, "features")
    /\ UNCHANGED <<args, provider, disk, raw, res, pipe, latest, forecast, out, written, exitCode, err>>

\* pipe, tr_idx, te_idx, y_tr, y_te, y_hat = train_model(df, args.test_size)
TrainModel ==
    /\ pc = "t_train"
    /\ LET r == train_model(df, args.test_size)
       IN  IF r.ok
           THEN /\ res' = <<r>>
                /\ pipe' = <<r.pipe>>
                /\ out' = Append(out, "metrics")
                /\ trace' = trace \o <<"split", "fit", "predict", "metrics">>
                /\ pc' = NextStep("t_train")
                /\ UNCHANGED <<exitCode, err>>
           ELSE /\ pc' = "exit" /\ exitCode' = 1 /\ err' = "split"
                /\ trace' = Append(trace, "split")
                /\ UNCHANGED <<res, pipe, out>>
    /\ UNCHANGED <<args, provider, disk, raw, df, latest, forecast, written>>

\* joblib.dump(pipe, model_fp); print
SaveModel ==
    /\ pc = "t_save"
    /\ disk' = [disk EXCEPT !.model = pipe]
    /\ written' = Append(written, ModelFile)
    /\ out' = Append(out, "model_saved")
    /\ trace' = Append(trace, "save")
    /\ pc' = NextStep("t_save")
    /\ exitCode' = IF pc' = "exit" THEN 0 ELSE exitCode
    /\ UNCHANGED <<args, provider, raw, df, res, pipe, latest, forecast, err>>

\* plot_results(df, tr_idx, te_idx, y_tr, y_te, y_hat, args.ticker, Path("reports"))
PlotResults ==
    /\ pc = "t_plot"
    /\ disk' = [disk EXCEPT !.plot = <<plot_results(df, res[1].train_idx, res[1].test_idx,
                                                   res[1].y_train, res[1].y_test, res[1].pred)>>]
    /\ written' = Append(written, PlotFile)
    /\ out' = Append(out, "plot_saved")
    /\ trace' = Append(trace, "plot")
    /\ pc' = NextStep("t_plot")
    /\ exitCode' = IF pc' = "exit" THEN 0 ELSE exitCode
    /\ UNCHANGED <<args, provider, raw, df, res, pipe, latest, forecast, err>>

Next ==
    \/ UsageError
    \/ LoadModel
    \/ PredictFetch
    \/ PredictFeatures
    \/ PredictOne
    \/ TrainFetch
    \/ TrainFeatures
    \/ TrainModel
    \/ SaveModel
    \/ PlotResults

Spec == Init /\ [][Next]_vars

\* ---------------------------------------------------------------------
\* Properties
\* ---------------------------------------------------------------------
Range(q) == { q[i] : i \in 1..Len(q) }
Count(q, x) == Cardinality({ i \in 1..Len(q) : q[i] = x })

TrainMode == ~args.predict
\* the training workflow has built the features
FeaturesBuilt == TrainMode /\ pc \notin {"start", "t_features"}
\* what the fetch of the run returns
Fetched == download_data(provider)

\* floor(len * (1 - f)) for the decimal f = num/den, in exact arithmetic
SplitPoint(f, len) == (len * (f[2] - f[1])) \div f[2]

Abs(x) == IF x < 0 THEN 0 - x ELSE x

\* C1: make_features on N complete, chronologically sorted rows returns N-3 rows
\* (none if N <= 3); row k of the result is the input row at position Day = k+2
\* (0-based), and its lags are the closes at positions Day-1, Day-2, Day-3.
C1_FeatureRows ==
    FeaturesBuilt =>
        LET N == Len(raw)
        IN  /\ Len(df) = IF N > 3 THEN N - 3 ELSE 0
            /\ \A k \in 1..Len(df) :
                 /\ df[k].Day = k + 2
                 /\ df[k].idx = raw[df[k].Day + 1].idx
                 /\ df[k].Date = raw[df[k].Day + 1].Date
                 /\ df[k].Close = raw[df[k].Day + 1].Close
                 /\ df[k].Close_lag1 = raw[df[k].Day].Close
                 /\ df[k].Close_lag2 = raw[df[k].Day - 1].Close
                 /\ df[k].Close_lag3 = raw[df[k].Day - 2].Close

C1_Witness ==
    /\ FeaturesBuilt /\ Len(raw) = 6 /\ Len(df) = 3 /\ Len(provider) = 7
    /\ df[2].Close_lag1 # df[2].Close_lag2
    /\ df[2].Close_lag2 # df[2].Close_lag3

\* C2: when train_model succeeds, the train and the test partition are disjoint,
\* cover all feature rows, and every train date is before every test date.
C2_TimeOrderedSplit ==
    res # <<>> =>
        LET tr == Range(res[1].train_idx)
            te == Range(res[1].test_idx)
        IN  /\ tr \cap te = {}
            /\ tr \cup te = Range(Labels(df))
            /\ Len(res[1].train_idx) + Len(res[1].test_idx) = Len(df)
            /\ \A a \in Range(DatesAt(df, res[1].train_idx)) :
                 \A b \in Range(DatesAt(df, res[1].test_idx)) : a < b

C2_Witness ==
    /\ res # <<>>
    /\ Len(res[1].train_idx) >= 2 /\ Len(res[1].test_idx) >= 2
    /\ Len(raw) < Len(provider)

\* C3: --predict without --model_path ends in a usage error (exit status 2), and
\* the run fetches nothing, loads nothing, predicts nothing and writes no file.
C3_UsageError ==
    (args.predict /\ args.model_path = NoPath) =>
        /\ pc \in {"start", "exit"}
        /\ pc = "exit" => (exitCode = 2 /\ err = "usage" /\ trace = <<"usage">>)
        /\ pc = "start" => trace = <<>>
        /\ pipe = <<>> /\ latest = <<>> /\ forecast = <<>>
        /\ out = <<>> /\ written = <<>>
        /\ disk \in Disks

C3_Witness == args.predict /\ args.model_path = NoPath /\ pc = "exit" /\ exitCode = 2

\* C4 as claimed: in a train-mode run the plot is written before the model is
\* saved, and the model is never saved before the plot has been written.
C4_PlotBeforeSave ==
    /\ \A i \in 1..Len(written) :
         written[i] = ModelFile => \E j \in 1..(i - 1) : written[j] = PlotFile
    /\ (TrainMode /\ pc = "exit" /\ exitCode = 0) =>
         trace = <<"fetch", "features", "split", "fit", "predict", "metrics", "plot", "save">>

\* C4 as amended: a train-mode run that completes took the steps fetch, features,
\* train, save, plot in this order; the plot is never written before the model is saved.
C4_SaveBeforePlot ==
    /\ \A i \in 1..Len(written) :
         written[i] = PlotFile => \E j \in 1..(i - 1) : written[j] = ModelFile
    /\ (TrainMode /\ pc = "exit" /\ exitCode = 0) =>
         /\ trace = <<"fetch", "features", "split", "fit", "predict", "metrics", "save", "plot">>
         /\ written = <<ModelFile, PlotFile>>

C4_Witness == TrainMode /\ pc = "exit" /\ exitCode = 0 /\ Len(written) = 2

\* C5 as claimed: with an empty provider table a train-mode run fails at the
\* fetch step, no split is attempted, and no model file or plot is written.
C5_FailsAtFetch ==
    (TrainMode /\ provider = <<>>) =>
        /\ pc = "exit" => err = "fetch"
        /\ Count(trace, "split") = 0
        /\ written = <<>>

\* C5 as amended: with an empty provider table the fetch and the feature step
\* return normally, the run fails when train_model attempts the split of the
\* zero feature rows, nothing is fitted, and no model file or plot is written.
C5_FailsAtSplit ==
    (TrainMode /\ provider = <<>>) =>
        /\ pc \in {"start", "t_features", "t_train", "exit"}
        /\ pc = "exit" => /\ err = "split" /\ exitCode = 1
                          /\ trace = <<"fetch", "features", "split">>
        /\ raw = <<>> /\ df = <<>>
        /\ res = <<>> /\ pipe = <<>>
        /\ written = <<>> /\ disk \in Disks

C5_Witness == TrainMode /\ provider = <<>> /\ pc = "exit" /\ err = "split"

\* C6: train_model fails, before any fit or metric, exactly when the split of the
\* feature rows under the test fraction leaves the train or the test partition
\* empty; when it does not fail, both partitions it returns are non-empty.
C6_FailsIffEmptyPartition ==
    (FeaturesBuilt /\ pc # "t_train") =>
        LET n_test  == n_test_of(args.test_size, Len(df))
            n_train == Len(df) - n_test
        IN  /\ err = "split" <=> (n_train = 0 \/ n_test = 0)
            /\ err = "split" => /\ res = <<>> /\ pipe = <<>> /\ pc = "exit" /\ exitCode = 1
                                /\ Count(trace, "fit") = 0 /\ Count(trace, "metrics") = 0
            /\ err # "split" => /\ res # <<>>
                                /\ Len(res[1].train_idx) > 0
                                /\ Len(res[1].test_idx) > 0

C6_Witness == FeaturesBuilt /\ err = "split" /\ Len(df) >= 1 /\ args.test_size = <<50, 100>>

\* C7 as claimed: when train_model succeeds the train partition is the first
\* floor(len * (1 - f)) feature rows and the test partition is the remaining rows.
C7_SplitAtFloor ==
    res # <<>> =>
        LET k == SplitPoint(args.test_size, Len(df))
        IN  /\ res[1].train_idx = Labels(SubSeq(df, 1, k))
            /\ res[1].test_idx = Labels(SubSeq(df, k + 1, Len(df)))

\* C7 as amended: when train_model succeeds the train partition is the first k
\* feature rows and the test partition the remaining len - k rows, each a
\* contiguous run, where k = len - ceil(test_size * len) in float arithmetic; k is
\* floor(len * (1 - f)) up to float rounding, never more than one row away from it.
C7_SplitNearFloor ==
    res # <<>> =>
        LET k == Len(res[1].train_idx)
        IN  /\ res[1].train_idx = Labels(SubSeq(df, 1, k))
            /\ res[1].test_idx = Labels(SubSeq(df, k + 1, Len(df)))
            /\ Abs(k - SplitPoint(args.test_size, Len(df))) <= 1

C7_Witness ==
    /\ res # <<>> /\ Len(df) = 25 /\ args.test_size = <<28, 100>>
    /\ Len(res[1].train_idx) = 17 /\ Len(res[1].test_idx) = 8

\* C8: a predict-mode run whose model loads and whose fetch returns at least 4
\* rows ends normally with exactly one feature row and one printed forecast, after
\* one load and one fetch, and writes no model file and no plot.
C8_OneForecast ==
    (args.predict /\ pipe # <<>> /\ Len(Fetched) >= 4) =>
        /\ pc \in {"p_predict", "exit"} => Len(latest) = 1
        /\ pc = "exit" => /\ exitCode = 0 /\ err = ""
                          /\ Len(forecast) = 1
                          /\ out = <<"forecast">>
                          /\ trace = <<"load", "fetch", "features", "predict">>
        /\ written = <<>>
        /\ disk \in Disks

C8_Witness ==
    /\ args.predict /\ pc = "exit" /\ forecast # <<>>
    /\ Len(Fetched) >= 5 /\ Len(provider) > Len(Fetched)

\* C9: the pipeline is fitted on the rows of the train partition only, the two
\* metrics are computed on the rows of the test partition only, and there is one
\* prediction per test row.
C9_NoLeakage ==
    res # <<>> =>
        LET r  == res[1]
            tr == Range(r.train_idx)
            te == Range(r.test_idx)
        IN  /\ tr \cap te = {}
            /\ Labels(r.pipe.fitX) = r.train_idx
            /\ Labels(r.pipe.fitY) = r.train_idx
            /\ Range(Labels(r.pipe.fitX)) \cap te = {}
            /\ Len(r.pred) = Len(r.test_idx)
            /\ \A i \in 1..Len(r.pred) : /\ r.pred[i].x.idx = r.test_idx[i]
                                         /\ r.pred[i].fitted_on = r.train_idx
            /\ Labels(r.scores.y_true) = r.test_idx
            /\ r.scores.y_pred = r.pred
            /\ Range(Labels(r.scores.y_true)) \cap tr = {}

C9_Witness ==
    /\ res # <<>> /\ pc = "t_save"
    /\ Len(res[1].pipe.fitX) >= 3 /\ Len(res[1].pred) >= 2

====
